---- MODULE Spec2Model ----
(***************************************************************************)
(* Model of metapool/metapool.py: the pooling picklist formatter, the      *)
(* interleaved-to-columns well remapping, the normalisation volume         *)
(* calculator, the two qPCR pooling policies, the normalisation picklist   *)
(* formatter, the pool concentration estimate and make_2D_array.           *)
(*                                                                         *)
(* numpy floats are modelled as extended rationals <<n, d>> in lowest      *)
(* terms with d >= 0: d = 0 encodes the IEEE specials (<<1,0>> = +inf,     *)
(* <<-1,0>> = -inf, <<0,0>> = NaN).  Arithmetic is exact, so binary        *)
(* rounding error is abstracted away; everything else (division by zero,   *)
(* NaN propagation, NaN comparisons being false) follows IEEE/numpy.       *)
(***************************************************************************)
EXTENDS Integers, Sequences, FiniteSets, TLC

VARIABLES pc,
          \* format_pooling_echo_pick_list
          vol_sample, max_vol_per_well, dest_plate_shape,
          i, j, running_tot, d, contents,
          \* reformat_interleaved_to_columns
          wells, new_wells,
          \* calculate_norm_vol
          dna_concs, ng, min_vol, max_vol, resolution,
          \* compute_shotgun_pooling_values_qpcr / _minvol
          sample_concs, sample_fracs, min_conc, floor_conc, floor_vol,
          total_nmol, sample_fracs_pass, sample_concs_floor,
          \* format_dna_norm_picklist
          dna_vols, water_vols, dest_wells, picklist,
          \* estimate_pool_conc_vol
          total_pmols, total_vol, pool_conc,
          \* make_2D_array
          qpcr, array_shape, cp_array,
          \* result of the numeric functions, and how the call ended
          sample_vols, outcome

pickVars  == <<vol_sample, max_vol_per_well, dest_plate_shape,
               i, j, running_tot, d, contents>>
wellVars  == <<wells, new_wells>>
normVars  == <<dna_concs, ng, min_vol, max_vol, resolution>>
qpcrVars  == <<sample_concs, sample_fracs, min_conc, floor_conc, floor_vol,
               total_nmol, sample_fracs_pass, sample_concs_floor>>
dnaVars   == <<dna_vols, water_vols, dest_wells, picklist>>
estVars   == <<total_pmols, total_vol, pool_conc>>
arrayVars == <<qpcr, array_shape, cp_array>>
extVars   == <<dnaVars, estVars, arrayVars>>
vars == <<pc, pickVars, wellVars, normVars, qpcrVars, extVars, sample_vols, outcome>>

None == "none"

-----------------------------------------------------------------------------
(* Bounds of the model *)

\* largest number of wells (rows * cols) of a volume plate
MaxWells == 4
\* largest number of samples of a concentration array
MaxSamples == 2
\* largest number of wells of an array given to format_dna_norm_picklist
MaxPickWells == 3
\* largest number of records given to make_2D_array
MaxRecords == 2

-----------------------------------------------------------------------------
(* Floating point values as extended rationals *)

Abs(x) == IF x < 0 THEN -x ELSE x
Sgn(x) == IF x < 0 THEN -1 ELSE IF x > 0 THEN 1 ELSE 0

RECURSIVE GCD(_, _)
GCD(a, b) == IF b = 0 THEN a ELSE GCD(b, a % b)

\* gcd used for cancelling; never 0
G(a, b) == LET g == GCD(Abs(a), Abs(b)) IN IF g = 0 THEN 1 ELSE g

Norm(n, dd) ==
    IF dd = 0 THEN <<Sgn(n), 0>>
    ELSE LET g == G(n, dd)
             s == IF dd < 0 THEN -1 ELSE 1
         IN <<(s * n) \div g, (s * dd) \div g>>

R(n) == <<n, 1>>
NaN == <<0, 0>>
Inf == <<1, 0>>
Zero == <<0, 1>>
One == <<1, 1>>

IsNaN(x) == x = NaN
IsFinite(x) == x[2] # 0

\* x < y on floats; any comparison with NaN is False
RLess(x, y) ==
    /\ ~IsNaN(x)
    /\ ~IsNaN(y)
    /\ IF x[2] = 0 /\ y[2] = 0 THEN x[1] < y[1]
       ELSE x[1] * y[2] < y[1] * x[2]
RLeq(x, y) == ~IsNaN(x) /\ ~IsNaN(y) /\ (x = y \/ RLess(x, y))
RGreater(x, y) == RLess(y, x)

RAdd(x, y) ==
    IF IsNaN(x) \/ IsNaN(y) THEN NaN
    ELSE IF x[2] = 0 THEN (IF y[2] = 0 /\ y[1] # x[1] THEN NaN ELSE x)
    ELSE IF y[2] = 0 THEN y
    ELSE LET g == G(x[2], y[2])
         IN Norm(x[1] * (y[2] \div g) + y[1] * (x[2] \div g), (x[2] \div g) * y[2])

RMul(x, y) ==
    LET g1 == G(x[1], y[2])
        g2 == G(y[1], x[2])
    IN Norm((x[1] \div g1) * (y[1] \div g2), (x[2] \div g2) * (y[2] \div g1))

Recip(x) == IF x[1] < 0 THEN <<-x[2], -x[1]>> ELSE <<x[2], x[1]>>

RDiv(x, y) == RMul(x, Recip(y))

\* nearest integer of a finite value, ties to the even neighbour
\* (np.round, and the rounding of "%.2f")
RoundHalfEven(x) ==
    LET q == x[1] \div x[2]
        r == x[1] - q * x[2]
    IN IF 2 * r < x[2] THEN q
       ELSE IF 2 * r > x[2] THEN q + 1
       ELSE IF q % 2 = 0 THEN q ELSE q + 1

\* np.round on an array element: specials pass through
RRound(x) == IF IsFinite(x) THEN R(RoundHalfEven(x)) ELSE x

\* np.nan_to_num on an array element (inputs are finite or NaN)
NanToNum(x) == IF IsNaN(x) THEN Zero ELSE x

\* np.clip on an array element
RClip_NoUpper(x, lo, hi) == IF RLess(x, lo) THEN lo ELSE x
RClip(x, lo, hi) == IF RLess(x, lo) THEN lo ELSE IF RGreater(x, hi) THEN hi ELSE x

\* arrays are sequences of rows
Shape(a) == <<Len(a), IF Len(a) = 0 THEN 0 ELSE Len(a[1])>>
Size(a) == Shape(a)[1] * Shape(a)[2]
Indices(a) == {ix \in (1 .. Shape(a)[1]) \X (1 .. Shape(a)[2]) : TRUE}
At(a, ix) == a[ix[1]][ix[2]]
Shapes(n) == {s \in (1 .. n) \X (1 .. n) : s[1] * s[2] <= n}
Arrays(s, V) == [1 .. s[1] -> [1 .. s[2] -> V]]
ArraysUpTo(n, V) == UNION {Arrays(s, V) : s \in Shapes(n)}

\* a.sum() over all elements, row-major
RECURSIVE SumSeq(_)
SumSeq(s) == IF s = <<>> THEN Zero ELSE RAdd(SumSeq(SubSeq(s, 1, Len(s) - 1)), s[Len(s)])
RECURSIVE Flatten(_)
Flatten(a) == IF a = <<>> THEN <<>> ELSE Flatten(SubSeq(a, 1, Len(a) - 1)) \o a[Len(a)]
ArraySum(a) == SumSeq(Flatten(a))

-----------------------------------------------------------------------------
(* Characters and well names *)

Alphabet == <<"A", "B", "C", "D", "E", "F", "G", "H", "I", "J", "K", "L", "M",
              "N", "O", "P", "Q", "R", "S", "T", "U", "V", "W", "X", "Y", "Z",
              "[", "BACKSLASH", "]", "^", "_", "BACKTICK",
              "a", "b", "c", "d", "e", "f", "g", "h", "i", "j", "k", "l", "m",
              "n", "o", "p", "q", "r", "s", "t", "u", "v", "w", "x", "y", "z">>

\* chr() on the code points 65 .. 122, ord() on 64 ("@") .. 122
Chr(code) == Alphabet[code - 64]
Ord(ch) == IF ch = "@" THEN 64
           ELSE 64 + (CHOOSE k \in 1 .. Len(Alphabet) : Alphabet[k] = ch)
\* str.upper() on one character
Upper(ch) == IF Ord(ch) \in 97 .. 122 THEN Chr(Ord(ch) - 32) ELSE ch

\* "%s%d" % (letter, number)
WellName(letter, number) == <<letter, number>>

\* "%.2f" % x for a finite x >= 0: digits before and after the point
Fmt2(x) ==
    LET h == RoundHalfEven(RMul(x, R(100)))
    IN [whole |-> h \div 100, frac |-> h % 100]

-----------------------------------------------------------------------------
(* format_pooling_echo_pick_list *)

PoolVolValues == {NaN, Zero, R(20000), R(50000), R(70000), <<617, 500>>}
MaxVolChoices == {R(60000), R(45000)}
DestShapes == {<<16, 24>>, <<2, 3>>}

Header == "Source Plate Name,Source Plate Type,Source Well,Concentration,Transfer Volume,Destination Plate Name,Destination Well"

rows == Shape(vol_sample)[1]
cols == Shape(vol_sample)[2]

\* pool_vols = np.nan_to_num(vol_sample)
PoolVols(vs) == [r \in 1 .. Len(vs) |-> [c \in 1 .. Len(vs[r]) |-> NanToNum(vs[r][c])]]
pool_vols == PoolVols(vol_sample)

\* the name of source well (ii, jj), zero-based
SourceWell_ZeroBased(ii, jj) == WellName(Chr(65 + ii), jj)
SourceWell(ii, jj) == WellName(Chr(65 + ii), jj + 1)

\* the test that starts a new destination well
Exceeds_NoCarry(tot, v, maxv) == RGreater(v, maxv)
Exceeds(tot, v, maxv) == RGreater(RAdd(tot, v), maxv)

\* the running total after a well of volume v
NextTot(tot, v, roll) == IF roll THEN v ELSE RAdd(tot, v)

\* the destination well of counter dd
Dest(dd, shape) == WellName(Chr(65 + (dd \div shape[1])), dd % shape[2])

InitPick ==
    /\ pc = "loop"
    /\ vol_sample \in ArraysUpTo(MaxWells, PoolVolValues)
    /\ max_vol_per_well \in MaxVolChoices
    /\ dest_plate_shape \in DestShapes
    /\ i = 0
    /\ j = 0
    /\ running_tot = Zero
    /\ d = 1
    /\ contents = <<Header>>
    /\ wells = None /\ new_wells = None
    /\ dna_concs = None /\ ng = None /\ min_vol = None /\ max_vol = None
    /\ resolution = None
    /\ sample_concs = None /\ sample_fracs = None /\ min_conc = None
    /\ floor_conc = None /\ floor_vol = None /\ total_nmol = None
    /\ sample_fracs_pass = None /\ sample_concs_floor = None
    /\ sample_vols = None
    /\ outcome = None
    /\ dna_vols = None /\ water_vols = None /\ dest_wells = None
    /\ picklist = None
    /\ total_pmols = None /\ total_vol = None /\ pool_conc = None
    /\ qpcr = None /\ array_shape = None /\ cp_array = None

\* one iteration of the inner loop body, for source well (i, j); the field
\* counter of a row keeps the value of d the row was written with
PickWell ==
    /\ pc = "loop"
    /\ i < rows
    /\ LET v == pool_vols[i + 1][j + 1]
           well_name == SourceWell(i, j)
           val == Fmt2(v)
           roll == Exceeds(running_tot, v, max_vol_per_well)
           nd == IF roll THEN d + 1 ELSE d
           dest == Dest(nd, dest_plate_shape)
       IN /\ d' = nd
          /\ running_tot' = NextTot(running_tot, v, roll)
          /\ contents' = Append(contents, [src |-> well_name, val |-> val, dest |-> dest, counter |-> nd])
    /\ IF j + 1 < cols
       THEN i' = i /\ j' = j + 1
       ELSE i' = i + 1 /\ j' = 0
    /\ UNCHANGED <<extVars, pc, vol_sample, max_vol_per_well, dest_plate_shape,
                   wellVars, normVars, qpcrVars, sample_vols, outcome>>

\* return "\n".join(contents)
PickReturn ==
    /\ pc = "loop"
    /\ i = rows
    /\ pc' = "done"
    /\ outcome' = "returned"
    /\ UNCHANGED <<extVars, pickVars, wellVars, normVars, qpcrVars, sample_vols>>

NextPick == PickWell \/ PickReturn

SpecPick == InitPick /\ [][NextPick]_vars

\* the wells processed so far, and the input volumes in row-major order
processed == Len(contents) - 1
flat_vols == Flatten(vol_sample)
AsZero(x) == IF x = NaN THEN Zero ELSE x

\* C1: the running total of the destination well being filled never exceeds
\* max_vol_per_well, whatever the volumes are, also when one source well alone
\* holds more than max_vol_per_well.
C1_RunningTotWithinMax == RLeq(running_tot, max_vol_per_well)

\* the first three wells hold 50000, 20000, 20000 and the limit is 60000
C2_Case ==
    /\ max_vol_per_well = R(60000)
    /\ Len(flat_vols) >= 3
    /\ SubSeq(flat_vols, 1, 3) = <<R(50000), R(20000), R(20000)>>

\* C2 as stated: with limit 60000 and volumes 50000, 20000, 20000 the first
\* two wells get destination counter 1 and the third well rolls over to
\* counter 2 with the running total reset to 20000.
C2_Original ==
    (C2_Case /\ processed = 3) =>
        /\ contents[2].counter = 1
        /\ contents[3].counter = 1
        /\ contents[4].counter = 2
        /\ running_tot = R(20000)

\* C2 amended: with limit 60000 and volumes 50000, 20000, 20000 the first well
\* gets counter 1, the second well (50000 + 20000 > 60000) rolls over to
\* counter 2 with the running total reset to 20000, and the third well stays
\* on counter 2 with running total 40000.
C2_Amended ==
    /\ (C2_Case /\ processed >= 1) => contents[2].counter = 1
    /\ (C2_Case /\ processed = 2) => (d = 2 /\ running_tot = R(20000))
    /\ (C2_Case /\ processed >= 2) => contents[3].counter = 2
    /\ (C2_Case /\ processed = 3) => (d = 2 /\ running_tot = R(40000))
    /\ (C2_Case /\ processed >= 3) => contents[4].counter = 2

C2_Witness == C2_Case /\ processed = 3

\* the volume, NaN counted as 0, that the wells of the current destination
\* counter have received
RECURSIVE PooledInto(_, _)
PooledInto(k, dd) ==
    IF k = 0 THEN Zero
    ELSE RAdd(PooledInto(k - 1, dd),
              IF contents[k + 1].counter = dd THEN AsZero(flat_vols[k]) ELSE Zero)

\* C3: after the header there is one instruction row per processed source
\* well, in row-major order (rows*cols rows at the end); a well of volume zero
\* or NaN is emitted with transfer volume 0.00, and a NaN volume counts as 0
\* in the running total.
C3_EveryWellEmitted ==
    /\ processed = i * cols + j
    /\ pc = "done" => processed = rows * cols
    /\ \A k \in 1 .. processed :
          /\ contents[k + 1].src = <<Alphabet[((k - 1) \div cols) + 1], ((k - 1) % cols) + 1>>
          /\ flat_vols[k] \in {NaN, Zero} => contents[k + 1].val = [whole |-> 0, frac |-> 0]
    /\ running_tot = PooledInto(processed, d)

C3_Witness ==
    /\ pc = "done"
    /\ rows = 2
    /\ cols = 2
    /\ flat_vols[2] = NaN
    /\ flat_vols[3] = Zero
    /\ flat_vols[4] = R(20000)

-----------------------------------------------------------------------------
(* reformat_interleaved_to_columns *)

PlateRows == 0 .. 15
PlateCols == 0 .. 23

\* the 384 addresses A1 .. P24 in row-major order, upper or lower case rows
AllWells(base) ==
    [k \in 1 .. Cardinality(PlateRows) * Cardinality(PlateCols) |->
        WellName(Chr(base + ((k - 1) \div Cardinality(PlateCols))),
                 ((k - 1) % Cardinality(PlateCols)) + 1)]

\* row = ord(str(owell[0]).upper()) - 65 ; col = int(owell[1:]) - 1
WellRow(owell) == Ord(Upper(owell[1])) - 65
WellCol(owell) == owell[2] - 1

\* nrow = int(row - roffset + np.floor(col / 12))
NRow_KeepOffset(row, col) == row + (col \div 12)
NRow(row, col) ==
    LET roffset == row % 2
    IN row - roffset + (col \div 12)

\* ncol = int(coffset * 6 + (col / 2) % 6); col / 2 is a true division, so the
\* sum is computed here in halves and int() truncates it
NCol_OffsetNotDoubled(row, col) ==
    LET coffset == (col % 2) + (row % 2)
    IN (coffset * 12 + (col % 12)) \div 2
NCol(row, col) ==
    LET coffset == (col % 2) + (row % 2) * 2
        halves == coffset * 12 + (col % 12)
    IN halves \div 2

\* nwell = '%s%s' % (chr(nrow + 65), ncol + 1)
Reformat(owell) ==
    LET row == WellRow(owell)
        col == WellCol(owell)
    IN WellName(Chr(NRow(row, col) + 65), NCol(row, col) + 1)

InitWells ==
    /\ pc = "loop"
    /\ wells \in {AllWells(65), AllWells(97)}
    /\ new_wells = <<>>
    /\ i = 0
    /\ j = None /\ vol_sample = None /\ max_vol_per_well = None
    /\ dest_plate_shape = None /\ running_tot = None /\ d = None
    /\ contents = None
    /\ dna_concs = None /\ ng = None /\ min_vol = None /\ max_vol = None
    /\ resolution = None
    /\ sample_concs = None /\ sample_fracs = None /\ min_conc = None
    /\ floor_conc = None /\ floor_vol = None /\ total_nmol = None
    /\ sample_fracs_pass = None /\ sample_concs_floor = None
    /\ sample_vols = None
    /\ outcome = None
    /\ dna_vols = None /\ water_vols = None /\ dest_wells = None
    /\ picklist = None
    /\ total_pmols = None /\ total_vol = None /\ pool_conc = None
    /\ qpcr = None /\ array_shape = None /\ cp_array = None

\* one iteration of the loop over wells
ReformatWell ==
    /\ pc = "loop"
    /\ i < Len(wells)
    /\ new_wells' = Append(new_wells, Reformat(wells[i + 1]))
    /\ i' = i + 1
    /\ UNCHANGED <<extVars, pc, wells, j, vol_sample, max_vol_per_well, dest_plate_shape,
                   running_tot, d, contents, normVars, qpcrVars, sample_vols,
                   outcome>>

\* return(new_wells)
ReformatReturn ==
    /\ pc = "loop"
    /\ i = Len(wells)
    /\ pc' = "done"
    /\ outcome' = "returned"
    /\ UNCHANGED <<extVars, pickVars, wellVars, normVars, qpcrVars, sample_vols>>

NextWells == ReformatWell \/ ReformatReturn

SpecWells == InitWells /\ [][NextWells]_vars

Grid == {WellName(Chr(65 + r), c + 1) : r \in PlateRows, c \in PlateCols}
Image == {new_wells[k] : k \in 1 .. Len(new_wells)}

\* C4: applied to all 384 addresses A1..P24 the remapping yields 384 pairwise
\* distinct addresses, each within rows A..P and columns 1..24, so every
\* address of the grid is hit exactly once.
C4_Bijection ==
    /\ Image \subseteq Grid
    /\ Cardinality(Image) = Len(new_wells)
    /\ pc = "done" => (Len(new_wells) = 384 /\ Image = Grid)

C4_Witness == pc = "done" /\ Len(new_wells) = 384 /\ wells[384] = <<"P", 24>>

\* C5: the well at zero-based (row, col) maps to letter(newRow)+(newCol+1)
\* with newRow = row - row mod 2 + floor(col/12) and newCol = ((col mod 2) +
\* (row mod 2)*2)*6 + (floor(col/2) mod 6), for odd and even columns; A1 maps
\* to A1, B1 to A13, and the wells of one (row parity, column parity) class
\* land in one block of 6 consecutive columns.
C5_Formula ==
    /\ \A k \in 1 .. Len(new_wells) :
          LET row == (k - 1) \div 24
              col == (k - 1) % 24
              newRow == row - (row % 2) + (col \div 12)
              newCol == ((col % 2) + (row % 2) * 2) * 6 + ((col \div 2) % 6)
          IN /\ new_wells[k] = <<Alphabet[newRow + 1], newCol + 1>>
             /\ (new_wells[k][2] - 1) \div 6 = (col % 2) + 2 * (row % 2)
    /\ Len(new_wells) >= 1 => new_wells[1] = <<"A", 1>>
    /\ Len(new_wells) >= 25 => new_wells[25] = <<"A", 13>>

C5_Witness ==
    /\ pc = "done"
    /\ wells[25] = <<"B", 1>>
    /\ new_wells[25] = <<"A", 13>>
    /\ wells[384] = <<"P", 24>>
    /\ new_wells[384] = <<"P", 24>>
-----------------------------------------------------------------------------
(* calculate_norm_vol *)

NormConcValues == {NaN, Zero, R(-1), R(1), R(3), R(400), R(625), R(800), R(2000)}
NgValues == {R(5), R(1)}
\* <<min_vol, max_vol, resolution>>; the first is the default
NormBounds == {<<<<5, 2>>, R(3500), <<5, 2>>>>,
               <<R(3), R(3500), <<5, 2>>>>,
               <<<<5, 2>>, R(9), <<5, 2>>>>,
               <<R(10), R(100), R(5)>>}

\* apply an element-wise operation to an array
Map(Op(_), a) == [r \in 1 .. Len(a) |-> [c \in 1 .. Len(a[r]) |-> Op(a[r][c])]]

\* ng / np.nan_to_num(dna_concs) * 1000, for one element
NormDivideElem(g, conc) == RMul(RDiv(g, NanToNum(conc)), R(1000))

\* np.round(sample_vols / resolution) * resolution, for one element
NormRoundElem(v, res) == RMul(RRound(RDiv(v, res)), res)

InitNorm ==
    /\ pc = "divide"
    /\ dna_concs \in ArraysUpTo(MaxSamples, NormConcValues)
    /\ ng \in NgValues
    /\ \E b \in NormBounds : min_vol = b[1] /\ max_vol = b[2] /\ resolution = b[3]
    /\ sample_vols = None
    /\ outcome = None
    /\ dna_vols = None /\ water_vols = None /\ dest_wells = None
    /\ picklist = None
    /\ total_pmols = None /\ total_vol = None /\ pool_conc = None
    /\ qpcr = None /\ array_shape = None /\ cp_array = None
    /\ i = None /\ j = None /\ vol_sample = None /\ max_vol_per_well = None
    /\ dest_plate_shape = None /\ running_tot = None /\ d = None
    /\ contents = None
    /\ wells = None /\ new_wells = None
    /\ sample_concs = None /\ sample_fracs = None /\ min_conc = None
    /\ floor_conc = None /\ floor_vol = None /\ total_nmol = None
    /\ sample_fracs_pass = None /\ sample_concs_floor = None

\* sample_vols = ng / np.nan_to_num(dna_concs) * 1000
NormDivide ==
    /\ pc = "divide"
    /\ LET F(c) == NormDivideElem(ng, c) IN sample_vols' = Map(F, dna_concs)
    /\ pc' = "clip"
    /\ UNCHANGED <<extVars, pickVars, wellVars, normVars, qpcrVars, outcome>>

\* sample_vols = np.clip(sample_vols, min_vol, max_vol)
NormClip ==
    /\ pc = "clip"
    /\ LET F(v) == RClip(v, min_vol, max_vol) IN sample_vols' = Map(F, sample_vols)
    /\ pc' = "round"
    /\ UNCHANGED <<extVars, pickVars, wellVars, normVars, qpcrVars, outcome>>

\* sample_vols = np.round(sample_vols / resolution) * resolution
NormRound ==
    /\ pc = "round"
    /\ LET F(v) == NormRoundElem(v, resolution) IN sample_vols' = Map(F, sample_vols)
    /\ pc' = "return"
    /\ UNCHANGED <<extVars, pickVars, wellVars, normVars, qpcrVars, outcome>>

\* return(sample_vols)
NormReturn ==
    /\ pc = "return"
    /\ pc' = "done"
    /\ outcome' = "returned"
    /\ UNCHANGED <<extVars, pickVars, wellVars, normVars, qpcrVars, sample_vols>>

NextNorm == NormDivide \/ NormClip \/ NormRound \/ NormReturn

SpecNorm == InitNorm /\ [][NextNorm]_vars

IsMultiple(x, res) == IsFinite(x) /\ RDiv(x, res)[2] = 1
Within(x, lo, hi) == RLeq(lo, x) /\ RLeq(x, hi)
Half(x) == RDiv(x, R(2))
Neg(x) == <<-x[1], x[2]>>

-----------------------------------------------------------------------------
(* compute_shotgun_pooling_values_qpcr *)

QpcrConcValues == {NaN, R(5), R(10), R(30), R(50), R(100)}
FracValues == {Zero, <<1, 4>>, <<1, 2>>}
\* sample_fracs=None
NoFracs == <<>>
FracChoices(concs) == {NoFracs} \cup Arrays(Shape(concs), FracValues)

\* np.ones(sample_concs.shape) / sample_concs.size
UniformFracs(concs) == LET F(c) == RDiv(One, R(Size(concs))) IN Map(F, concs)

\* the mask sample_concs <= min_conc, for one element
QpcrExcluded_Strict(conc, minc) == RLess(conc, minc)
QpcrExcluded(conc, minc) == RLeq(conc, minc)

\* combine two arrays of one shape element-wise
Map2(Op(_, _), a, b) ==
    [r \in 1 .. Len(a) |-> [c \in 1 .. Len(a[r]) |-> Op(a[r][c], b[r][c])]]

InitQpcr ==
    /\ pc = "fracs"
    /\ sample_concs \in ArraysUpTo(MaxSamples, QpcrConcValues)
    /\ sample_fracs \in FracChoices(sample_concs)
    /\ min_conc = R(10)
    /\ floor_conc = R(50)
    /\ total_nmol = <<1, 100>>
    /\ floor_vol = None
    /\ sample_fracs_pass = None
    /\ sample_concs_floor = None
    /\ sample_vols = None
    /\ outcome = None
    /\ dna_vols = None /\ water_vols = None /\ dest_wells = None
    /\ picklist = None
    /\ total_pmols = None /\ total_vol = None /\ pool_conc = None
    /\ qpcr = None /\ array_shape = None /\ cp_array = None
    /\ i = None /\ j = None /\ vol_sample = None /\ max_vol_per_well = None
    /\ dest_plate_shape = None /\ running_tot = None /\ d = None
    /\ contents = None
    /\ wells = None /\ new_wells = None
    /\ dna_concs = None /\ ng = None /\ min_vol = None /\ max_vol = None
    /\ resolution = None

\* if sample_fracs is None: sample_fracs = np.ones(shape) / size
QpcrDefaultFracs ==
    /\ pc = "fracs"
    /\ sample_fracs' = IF sample_fracs = NoFracs THEN UniformFracs(sample_concs)
                       ELSE sample_fracs
    /\ pc' = "exclude"
    /\ UNCHANGED <<extVars, pickVars, wellVars, normVars, sample_concs, min_conc,
                   floor_conc, floor_vol, total_nmol, sample_fracs_pass,
                   sample_concs_floor, sample_vols, outcome>>

\* sample_fracs_pass = sample_fracs.copy()
\* sample_fracs_pass[sample_concs <= min_conc] = 0
QpcrExclude ==
    /\ pc = "exclude"
    /\ LET F(w, c) == IF QpcrExcluded(c, min_conc) THEN Zero ELSE w
       IN sample_fracs_pass' = Map2(F, sample_fracs, sample_concs)
    /\ pc' = "renormalize"
    /\ UNCHANGED <<extVars, pickVars, wellVars, normVars, sample_concs, sample_fracs,
                   min_conc, floor_conc, floor_vol, total_nmol,
                   sample_concs_floor, sample_vols, outcome>>

\* sample_fracs_pass *= 1/sample_fracs_pass.sum()
\* (a float division: a zero sum gives inf, and 0 * inf is NaN)
QpcrRenormalize ==
    /\ pc = "renormalize"
    /\ LET scale == RDiv(One, ArraySum(sample_fracs_pass))
           F(w) == RMul(w, scale)
       IN sample_fracs_pass' = Map(F, sample_fracs_pass)
    /\ pc' = "floor"
    /\ UNCHANGED <<extVars, pickVars, wellVars, normVars, sample_concs, sample_fracs,
                   min_conc, floor_conc, floor_vol, total_nmol,
                   sample_concs_floor, sample_vols, outcome>>

\* sample_concs_floor = sample_concs.copy()
\* sample_concs_floor[sample_concs < floor_conc] = floor_conc
QpcrFloor ==
    /\ pc = "floor"
    /\ LET F(c) == IF RLess(c, floor_conc) THEN floor_conc ELSE c
       IN sample_concs_floor' = Map(F, sample_concs)
    /\ pc' = "volumes"
    /\ UNCHANGED <<extVars, pickVars, wellVars, normVars, sample_concs, sample_fracs,
                   min_conc, floor_conc, floor_vol, total_nmol,
                   sample_fracs_pass, sample_vols, outcome>>

\* sample_vols = (total_nmol * sample_fracs_pass) / sample_concs_floor
\* sample_vols *= 10**9
QpcrVolumes ==
    /\ pc = "volumes"
    /\ LET F(w, c) == RMul(RDiv(RMul(total_nmol, w), c), R(10 ^ 9))
       IN sample_vols' = Map2(F, sample_fracs_pass, sample_concs_floor)
    /\ pc' = "return"
    /\ UNCHANGED <<extVars, pickVars, wellVars, normVars, qpcrVars, outcome>>

\* return(sample_vols)
QpcrReturn ==
    /\ pc = "return"
    /\ pc' = "done"
    /\ outcome' = "returned"
    /\ UNCHANGED <<extVars, pickVars, wellVars, normVars, qpcrVars, sample_vols>>

NextQpcr == QpcrDefaultFracs \/ QpcrExclude \/ QpcrRenormalize \/ QpcrFloor
            \/ QpcrVolumes \/ QpcrReturn

SpecQpcr == InitQpcr /\ [][NextQpcr]_vars

\* the samples the exclusion leaves in the pool
Survivors == {ix \in Indices(sample_concs) : ~RLeq(At(sample_concs, ix), min_conc)}
RECURSIVE SumOver(_, _)
SumOver(a, S) ==
    IF S = {} THEN Zero
    ELSE LET ix == CHOOSE x \in S : TRUE
         IN RAdd(At(a, ix), SumOver(a, S \ {ix}))

\* C7: after exclusion and renormalization the weights of the surviving
\* samples sum to 1 and keep their proportions, and every sample whose
\* concentration is below min_conc receives volume 0, for all weight arrays.
C7_RenormalizedAndZeroed ==
    pc = "done" =>
        /\ SumOver(sample_fracs_pass, Survivors) = One
        /\ \A a \in Survivors, b \in Survivors :
              RMul(At(sample_fracs_pass, a), At(sample_fracs, b))
                = RMul(At(sample_fracs_pass, b), At(sample_fracs, a))
        /\ \A ix \in Indices(sample_concs) :
              RLess(At(sample_concs, ix), min_conc) => At(sample_vols, ix) = Zero

\* C8 as stated: a sample at exactly min_conc is not excluded; it keeps a
\* non-zero weight and receives a positive volume.
C8_Original ==
    pc = "done" =>
        \A ix \in Indices(sample_concs) :
            At(sample_concs, ix) = min_conc =>
                /\ At(sample_fracs_pass, ix) # Zero
                /\ RGreater(At(sample_vols, ix), Zero)

\* C8 amended: a sample at exactly min_conc is excluded like the samples
\* below it (the test is <=): the exclusion sets its weight to zero and it
\* never receives a positive volume (its volume is 0, or NaN when the
\* surviving weights sum to zero).
C8_Amended ==
    \A ix \in Indices(sample_concs) :
        At(sample_concs, ix) = min_conc =>
            /\ pc = "renormalize" => At(sample_fracs_pass, ix) = Zero
            /\ pc = "done" =>
                  /\ ~RGreater(At(sample_vols, ix), Zero)
                  /\ At(sample_vols, ix) \in {Zero, NaN}
                  /\ ArraySum(sample_fracs_pass) = One => At(sample_vols, ix) = Zero

\* a sample at min_conc with weight 1/2 next to a surviving sample
C8_Witness ==
    /\ pc = "done"
    /\ sample_concs = <<<<R(10), R(100)>>>>
    /\ sample_fracs = <<<<<<1, 2>>, <<1, 2>>>>>>
    /\ sample_vols = <<<<Zero, R(100000)>>>>

\* C9: when every sample is excluded the call ends in an error; it never
\* returns a volume array as a normal result.
C9_ErrorWhenAllExcluded ==
    (pc = "done" /\ Survivors = {}) => outcome = "error"
\* the samples without a concentration, and those measured above min_conc
Missing == {ix \in Indices(sample_concs) : IsNaN(At(sample_concs, ix))}
Measured == {ix \in Indices(sample_concs) : RGreater(At(sample_concs, ix), min_conc)}

\* C13: a sample whose concentration is missing is excluded from pooling: the
\* call does not fail, the missing sample gets zero weight and no positive
\* volume, and the renormalized weights of the samples measured above
\* min_conc still sum to 1.
C13_MissingExcluded ==
    (pc = "done" /\ Missing # {} /\ SumOver(sample_fracs, Measured) # Zero) =>
        /\ outcome = "returned"
        /\ \A ix \in Missing :
              /\ At(sample_fracs_pass, ix) = Zero
              /\ ~RGreater(At(sample_vols, ix), Zero)
        /\ SumOver(sample_fracs_pass, Measured) = One

-----------------------------------------------------------------------------
(* compute_shotgun_pooling_values_qpcr_minvol *)

MinvolConcValues == {NaN, Zero, R(20), R(40), R(100)}

\* the mask sample_concs < floor_conc, for one element
MinvolFloored_Inclusive(conc, fc) == RLeq(conc, fc)
MinvolFloored(conc, fc) == RLess(conc, fc)

InitMinvol ==
    /\ pc = "fracs"
    /\ sample_concs \in ArraysUpTo(MaxSamples, MinvolConcValues)
    /\ sample_fracs \in FracChoices(sample_concs)
    /\ floor_vol = R(100)
    /\ floor_conc = R(40)
    /\ total_nmol = <<1, 100>>
    /\ min_conc = None
    /\ sample_fracs_pass = None
    /\ sample_concs_floor = None
    /\ sample_vols = None
    /\ outcome = None
    /\ dna_vols = None /\ water_vols = None /\ dest_wells = None
    /\ picklist = None
    /\ total_pmols = None /\ total_vol = None /\ pool_conc = None
    /\ qpcr = None /\ array_shape = None /\ cp_array = None
    /\ i = None /\ j = None /\ vol_sample = None /\ max_vol_per_well = None
    /\ dest_plate_shape = None /\ running_tot = None /\ d = None
    /\ contents = None
    /\ wells = None /\ new_wells = None
    /\ dna_concs = None /\ ng = None /\ min_vol = None /\ max_vol = None
    /\ resolution = None

\* if sample_fracs is None: sample_fracs = np.ones(shape) / size
MinvolDefaultFracs ==
    /\ pc = "fracs"
    /\ sample_fracs' = IF sample_fracs = NoFracs THEN UniformFracs(sample_concs)
                       ELSE sample_fracs
    /\ pc' = "volumes"
    /\ UNCHANGED <<extVars, pickVars, wellVars, normVars, sample_concs, min_conc,
                   floor_conc, floor_vol, total_nmol, sample_fracs_pass,
                   sample_concs_floor, sample_vols, outcome>>

\* sample_vols = (total_nmol * sample_fracs) / sample_concs
\* sample_vols *= 10**9
MinvolVolumes ==
    /\ pc = "volumes"
    /\ LET F(w, c) == RMul(RDiv(RMul(total_nmol, w), c), R(10 ^ 9))
       IN sample_vols' = Map2(F, sample_fracs, sample_concs)
    /\ pc' = "floor"
    /\ UNCHANGED <<extVars, pickVars, wellVars, normVars, qpcrVars, outcome>>

\* sample_vols[sample_concs < floor_conc] = floor_vol
MinvolFloor ==
    /\ pc = "floor"
    /\ LET F(v, c) == IF MinvolFloored(c, floor_conc) THEN floor_vol ELSE v
       IN sample_vols' = Map2(F, sample_vols, sample_concs)
    /\ pc' = "return"
    /\ UNCHANGED <<extVars, pickVars, wellVars, normVars, qpcrVars, outcome>>

\* return(sample_vols)
MinvolReturn ==
    /\ pc = "return"
    /\ pc' = "done"
    /\ outcome' = "returned"
    /\ UNCHANGED <<extVars, pickVars, wellVars, normVars, qpcrVars, sample_vols>>

NextMinvol == MinvolDefaultFracs \/ MinvolVolumes \/ MinvolFloor \/ MinvolReturn

SpecMinvol == InitMinvol /\ [][NextMinvol]_vars

\* C10: no sample is excluded: a sample with concentration strictly below
\* floor_conc (concentration 0 included) receives exactly floor_vol whatever
\* its weight, every other sample (one at exactly floor_conc included)
\* receives total_nmol * weight / concentration * 1e9, and the output has the
\* shape of the input.
C10_FloorVolOrFormula ==
    pc = "done" =>
        /\ outcome = "returned"
        /\ Shape(sample_vols) = Shape(sample_concs)
        /\ \A ix \in Indices(sample_concs) :
              LET c == At(sample_concs, ix)
                  w == At(sample_fracs, ix)
                  v == At(sample_vols, ix)
              IN /\ (~IsNaN(c) /\ c[1] * floor_conc[2] < floor_conc[1] * c[2])
                       => v = floor_vol
                 /\ (IsNaN(c) \/ c[1] * floor_conc[2] >= floor_conc[1] * c[2])
                       => /\ v = RMul(RMul(total_nmol, R(10 ^ 9)), RDiv(w, c))
                          /\ (~IsNaN(c) /\ w[1] > 0) => v[1] > 0

\* a sample of concentration 0 and one at exactly floor_conc, uniform weights
C10_Witness ==
    /\ pc = "done"
    /\ sample_concs = <<<<Zero, R(40)>>>>
    /\ sample_fracs = <<<<<<1, 2>>, <<1, 2>>>>>>
    /\ sample_vols = <<<<R(100), R(125000)>>>>
-----------------------------------------------------------------------------
(* format_dna_norm_picklist, called with dest_wells given or None and the   *)
(* defaults of dna_concs, sample_names, sample_plates and the plate names   *)

DnaVolValues == {<<5, 2>>, R(3500)}
WaterVolValues == {Zero, <<6995, 2>>}

\* an array of well names: row letter by row, column number by column
WellArray(s) == [r \in 1 .. s[1] |-> [c \in 1 .. s[2] |-> WellName(Chr(64 + r), c)]]

\* dest_wells=None
NoDestWells == <<>>
\* dest_wells: None, or the source wells remapped
DestWellChoices(w) ==
    {NoDestWells, [r \in 1 .. Len(w) |-> [c \in 1 .. Len(w[r]) |-> Reformat(w[r][c])]]}

\* the header line, as its tab-separated fields
DnaHeader == <<"Sample", "Source Plate Name", "Source Plate Type", "Source Well",
               "Concentration", "Transfer Volume", "Destination Plate Name",
               "Destination Well">>

\* Python's chained comparison a != b != c is (a != b) and (b != c)
ChainedNe(a, b, c) == a # b /\ b # c

\* the indices np.ndenumerate yields for an array of shape s, in order
IndexSeq(s) == [k \in 1 .. s[1] * s[2] |-> <<((k - 1) \div s[2]) + 1, ((k - 1) % s[2]) + 1>>]

\* a[index] succeeds (indices from ndenumerate are never negative)
InRange(a, ix) == ix[1] <= Shape(a)[1] /\ ix[2] <= Shape(a)[2]

\* one line of the picklist as its fields; str(np.nan) is "nan"
PickRow(plate, ptype, well, vol, dest) ==
    [sample |-> "nan", plate |-> plate, ptype |-> ptype, src |-> well,
     conc |-> "nan", vol |-> vol, dest_plate |-> "NormalizedDNA", dest |-> dest]

\* picklist += '\n' + line, for the lines of one loop
AppendRows_Front(pl, lines) == <<Head(pl)>> \o lines \o Tail(pl)
AppendRows(pl, lines) == pl \o lines

InitDnaNorm ==
    /\ pc = "check"
    /\ \E s \in Shapes(MaxPickWells) : dna_vols \in Arrays(s, DnaVolValues)
    /\ \E s \in Shapes(MaxPickWells) : water_vols \in Arrays(s, WaterVolValues)
    /\ \E s \in Shapes(MaxPickWells) : wells = WellArray(s)
    /\ dest_wells \in DestWellChoices(wells)
    /\ picklist = None
    /\ outcome = None
    /\ sample_vols = None
    /\ new_wells = None
    /\ i = None /\ j = None /\ vol_sample = None /\ max_vol_per_well = None
    /\ dest_plate_shape = None /\ running_tot = None /\ d = None
    /\ contents = None
    /\ dna_concs = None /\ ng = None /\ min_vol = None /\ max_vol = None
    /\ resolution = None
    /\ sample_concs = None /\ sample_fracs = None /\ min_conc = None
    /\ floor_conc = None /\ floor_vol = None /\ total_nmol = None
    /\ sample_fracs_pass = None /\ sample_concs_floor = None
    /\ total_pmols = None /\ total_vol = None /\ pool_conc = None
    /\ qpcr = None /\ array_shape = None /\ cp_array = None

\* if dna_vols.shape != wells.shape != water_vols.shape: raise ValueError
DnaCheckShapes ==
    /\ pc = "check"
    /\ IF ChainedNe(Shape(dna_vols), Shape(wells), Shape(water_vols))
       THEN pc' = "done" /\ outcome' = "error"
       ELSE pc' = "defaults" /\ outcome' = outcome
    /\ UNCHANGED <<pickVars, wellVars, normVars, qpcrVars, dnaVars, estVars,
                   arrayVars, sample_vols>>

\* the defaults: dest_wells = wells; dna_concs, sample_names, sample_plates
\* and dna_plate_type get the shape of dna_vols, so the second chained shape
\* test is False; then the header
DnaDefaults ==
    /\ pc = "defaults"
    /\ dest_wells' = IF dest_wells = NoDestWells THEN wells ELSE dest_wells
    /\ ~ChainedNe(Shape(dna_vols), Shape(dna_vols), Shape(dna_vols))
    /\ picklist' = <<DnaHeader>>
    /\ pc' = "water"
    /\ UNCHANGED <<pickVars, wellVars, normVars, qpcrVars, dna_vols, water_vols,
                   estVars, arrayVars, sample_vols, outcome>>

\* the loop of the water additions over np.ndenumerate(sample_names); an
\* index outside wells, water_vols or dest_wells raises IndexError
DnaWaterRows ==
    /\ pc = "water"
    /\ LET idx == IndexSeq(Shape(dna_vols))
           ok == \A k \in 1 .. Len(idx) :
                    /\ InRange(wells, idx[k])
                    /\ InRange(water_vols, idx[k])
                    /\ InRange(dest_wells, idx[k])
           lines == [k \in 1 .. Len(idx) |->
                       PickRow("Water", "384PP_AQ_BP2_HT", At(wells, idx[k]),
                               At(water_vols, idx[k]), At(dest_wells, idx[k]))]
       IN IF ok
          THEN picklist' = AppendRows(picklist, lines) /\ pc' = "dna"
               /\ outcome' = outcome
          ELSE picklist' = picklist /\ pc' = "done" /\ outcome' = "error"
    /\ UNCHANGED <<pickVars, wellVars, normVars, qpcrVars, dna_vols, water_vols,
                   dest_wells, estVars, arrayVars, sample_vols>>

\* the loop of the DNA additions over np.ndenumerate(sample_names)
DnaDnaRows ==
    /\ pc = "dna"
    /\ LET idx == IndexSeq(Shape(dna_vols))
           ok == \A k \in 1 .. Len(idx) :
                    InRange(wells, idx[k]) /\ InRange(dest_wells, idx[k])
           lines == [k \in 1 .. Len(idx) |->
                       PickRow("Sample", "384PP_AQ_BP2_HT", At(wells, idx[k]),
                               At(dna_vols, idx[k]), At(dest_wells, idx[k]))]
       IN IF ok
          THEN picklist' = AppendRows(picklist, lines) /\ pc' = "return"
               /\ outcome' = outcome
          ELSE picklist' = picklist /\ pc' = "done" /\ outcome' = "error"
    /\ UNCHANGED <<pickVars, wellVars, normVars, qpcrVars, dna_vols, water_vols,
                   dest_wells, estVars, arrayVars, sample_vols>>

\* return(picklist)
DnaReturn ==
    /\ pc = "return"
    /\ pc' = "done"
    /\ outcome' = "returned"
    /\ UNCHANGED <<pickVars, wellVars, normVars, qpcrVars, extVars, sample_vols>>

NextDnaNorm == DnaCheckShapes \/ DnaDefaults \/ DnaWaterRows \/ DnaDnaRows
               \/ DnaReturn

SpecDnaNorm == InitDnaNorm /\ [][NextDnaNorm]_vars

SameShapes == Shape(dna_vols) = Shape(wells) /\ Shape(wells) = Shape(water_vols)

\* C11: format_dna_norm_picklist ends in an error, emitting no picklist,
\* whenever any two of dna_vols, wells and water_vols differ in shape, also
\* when only one of the pairs differs.
C11_MismatchFails ==
    (pc = "done" /\ ~SameShapes) => outcome = "error"

\* C12: the header is followed by exactly N water rows and then exactly N
\* DNA rows; every water row precedes every DNA row, the k-th water row and
\* the k-th DNA row have the same source and destination well, and for
\* co-indexed arrays each block lists every well once, in the order of wells.
C12_WaterThenDna ==
    outcome = "returned" =>
        LET N == Size(dna_vols)
            idx == IndexSeq(Shape(dna_vols))
        IN /\ Len(picklist) = 1 + 2 * N
           /\ picklist[1] = DnaHeader
           /\ \A k \in 1 .. N :
                 /\ picklist[1 + k].plate = "Water"
                 /\ picklist[1 + k].vol = At(water_vols, idx[k])
                 /\ picklist[1 + N + k].plate = "Sample"
                 /\ picklist[1 + N + k].vol = At(dna_vols, idx[k])
                 /\ picklist[1 + k].src = picklist[1 + N + k].src
                 /\ picklist[1 + k].dest = picklist[1 + N + k].dest
           /\ SameShapes =>
                 /\ [k \in 1 .. N |-> picklist[1 + k].src] = Flatten(wells)
                 /\ [k \in 1 .. N |-> picklist[1 + N + k].src] = Flatten(wells)
                 /\ [k \in 1 .. N |-> picklist[1 + k].dest] = Flatten(dest_wells)

\* three co-indexed wells with remapped destinations
C12_Witness ==
    /\ outcome = "returned"
    /\ SameShapes
    /\ Shape(wells) = <<1, 3>>
    /\ dest_wells # wells
    /\ Len(picklist) = 7
    /\ dna_vols = <<<<R(3500), <<5, 2>>, R(3500)>>>>
-----------------------------------------------------------------------------
(* estimate_pool_conc_vol *)

EstVolValues == {Zero, R(10), R(30)}
EstConcValues == {NaN, Zero, R(100), R(300)}

\* nl_scalar = 10**-9
nl_scalar == <<1, 10 ^ 9>>

\* np.multiply(sample_concs, sample_vols) * nl_scalar, for one element
PmolsElem(c, v) == RMul(RMul(c, v), nl_scalar)

\* pool_conc = total_pmols.sum() / (total_vol * nl_scalar)
PoolConc_NoVolume(pmols_sum, tv) == RDiv(pmols_sum, nl_scalar)
PoolConc(pmols_sum, tv) == RDiv(pmols_sum, RMul(tv, nl_scalar))

InitEstimate ==
    /\ pc = "pmols"
    /\ \E s \in Shapes(MaxSamples) :
          /\ sample_vols \in Arrays(s, EstVolValues)
          /\ sample_concs \in Arrays(s, EstConcValues)
    /\ total_pmols = None /\ total_vol = None /\ pool_conc = None
    /\ outcome = None
    /\ wells = None /\ new_wells = None
    /\ i = None /\ j = None /\ vol_sample = None /\ max_vol_per_well = None
    /\ dest_plate_shape = None /\ running_tot = None /\ d = None
    /\ contents = None
    /\ dna_concs = None /\ ng = None /\ min_vol = None /\ max_vol = None
    /\ resolution = None
    /\ sample_fracs = None /\ min_conc = None
    /\ floor_conc = None /\ floor_vol = None /\ total_nmol = None
    /\ sample_fracs_pass = None /\ sample_concs_floor = None
    /\ dna_vols = None /\ water_vols = None /\ dest_wells = None
    /\ picklist = None
    /\ qpcr = None /\ array_shape = None /\ cp_array = None

\* total_pmols = np.multiply(sample_concs, sample_vols) * nl_scalar
EstPmols ==
    /\ pc = "pmols"
    /\ total_pmols' = Map2(PmolsElem, sample_concs, sample_vols)
    /\ pc' = "total"
    /\ UNCHANGED <<pickVars, wellVars, normVars, qpcrVars, dnaVars, arrayVars,
                   total_vol, pool_conc, sample_vols, outcome>>

\* total_vol = sample_vols.sum()
EstTotalVol ==
    /\ pc = "total"
    /\ total_vol' = ArraySum(sample_vols)
    /\ pc' = "conc"
    /\ UNCHANGED <<pickVars, wellVars, normVars, qpcrVars, dnaVars, arrayVars,
                   total_pmols, pool_conc, sample_vols, outcome>>

\* pool_conc = total_pmols.sum() / (total_vol * nl_scalar)
EstPoolConc ==
    /\ pc = "conc"
    /\ pool_conc' = PoolConc(ArraySum(total_pmols), total_vol)
    /\ pc' = "return"
    /\ UNCHANGED <<pickVars, wellVars, normVars, qpcrVars, dnaVars, arrayVars,
                   total_pmols, total_vol, sample_vols, outcome>>

\* return(pool_conc, total_vol)
EstReturn ==
    /\ pc = "return"
    /\ pc' = "done"
    /\ outcome' = "returned"
    /\ UNCHANGED <<pickVars, wellVars, normVars, qpcrVars, extVars, sample_vols>>

NextEstimate == EstPmols \/ EstTotalVol \/ EstPoolConc \/ EstReturn

SpecEstimate == InitEstimate /\ [][NextEstimate]_vars

\* sums over the whole numbers of nL and of nM * nL of the input
RECURSIVE IntSum(_)
IntSum(s) == IF s = <<>> THEN 0 ELSE s[1] + IntSum(Tail(s))
VolNumbers == [k \in 1 .. Size(sample_vols) |-> Flatten(sample_vols)[k][1]]
ProductNumbers ==
    [k \in 1 .. Size(sample_vols) |->
        Flatten(sample_concs)[k][1] * Flatten(sample_vols)[k][1]]

\* C14: for co-indexed arrays without missing entries and with a positive
\* total volume, total_vol is the sum of the volumes and pool_conc is
\* sum(concentration * volume) / sum(volume); in particular volumes [10, 10] nL at [100, 300] nM give (200 nM, 20 nL).
C14_WeightedMean ==
    (pc = "done" /\ Missing = {} /\ IntSum(VolNumbers) > 0) =>
        /\ total_vol = R(IntSum(VolNumbers))
        /\ IsFinite(pool_conc)
        /\ pool_conc[1] * IntSum(VolNumbers) = IntSum(ProductNumbers) * pool_conc[2]
        /\ (sample_vols = <<<<R(10), R(10)>>>> /\ sample_concs = <<<<R(100), R(300)>>>>)
              => (pool_conc = R(200) /\ total_vol = R(20))

C14_Witness ==
    /\ pc = "done"
    /\ sample_vols = <<<<R(10), R(10)>>>>
    /\ sample_concs = <<<<R(100), R(300)>>>>
    /\ pool_conc = R(200)
    /\ total_vol = R(20)
-----------------------------------------------------------------------------
(* make_2D_array *)

\* <<rows, cols>>; the second is the default
ArrayShapes == {<<2, 3>>, <<16, 24>>}
PosLetters == {"@", "A", "b", "C", "Q"}
PosNumbers == {0, 1, 3, 4, 25}

\* the k-th record of the frame: a well in column well_col and a value in
\* column data_col
Records(n) ==
    UNION {[1 .. m -> [Pos : PosLetters \X PosNumbers, Cp : {R(20)}]] : m \in 1 .. n}

\* a cell of np.empty(..., dtype=object) that was never assigned
EmptyCell == <<>>

\* numpy accepts an index idx on an axis of length n iff -n <= idx < n, and
\* counts a negative index from the end
ValidIndex(idx, n) == idx >= -n /\ idx < n
WrapIndex(idx, n) == IF idx < 0 THEN idx + n ELSE idx

\* row = ord(str.upper(well[0])) - ord('A') ; col = int(well[1:]) - 1
RecordRow(well) == Ord(Upper(well[1])) - Ord("A")
RecordCol(well) == well[2] - 1

InitMake2D ==
    /\ pc = "loop"
    /\ array_shape \in ArrayShapes
    /\ qpcr \in Records(MaxRecords)
    /\ cp_array = [r \in 1 .. array_shape[1] |-> [c \in 1 .. array_shape[2] |-> EmptyCell]]
    /\ i = 0
    /\ outcome = None
    /\ sample_vols = None
    /\ wells = None /\ new_wells = None
    /\ j = None /\ vol_sample = None /\ max_vol_per_well = None
    /\ dest_plate_shape = None /\ running_tot = None /\ d = None
    /\ contents = None
    /\ dna_concs = None /\ ng = None /\ min_vol = None /\ max_vol = None
    /\ resolution = None
    /\ sample_concs = None /\ sample_fracs = None /\ min_conc = None
    /\ floor_conc = None /\ floor_vol = None /\ total_nmol = None
    /\ sample_fracs_pass = None /\ sample_concs_floor = None
    /\ dna_vols = None /\ water_vols = None /\ dest_wells = None
    /\ picklist = None
    /\ total_pmols = None /\ total_vol = None /\ pool_conc = None

\* one iteration of the loop over qpcr.iterrows(), i counting the records
\* done: cp_array[row, col] = value, or IndexError
Make2DRecord ==
    /\ pc = "loop"
    /\ i < Len(qpcr)
    /\ LET record == qpcr[i + 1]
           row == RecordRow(record.Pos)
           col == RecordCol(record.Pos)
       IN IF ValidIndex(row, array_shape[1]) /\ ValidIndex(col, array_shape[2])
          THEN /\ cp_array' = [cp_array EXCEPT
                                 ![WrapIndex(row, array_shape[1]) + 1]
                                  [WrapIndex(col, array_shape[2]) + 1] = record.Cp]
               /\ i' = i + 1
               /\ pc' = pc
               /\ outcome' = outcome
          ELSE /\ cp_array' = cp_array
               /\ i' = i
               /\ pc' = "done"
               /\ outcome' = "error"
    /\ UNCHANGED <<vol_sample, max_vol_per_well, dest_plate_shape, j,
                   running_tot, d, contents, wellVars, normVars, qpcrVars,
                   dnaVars, estVars, qpcr, array_shape, sample_vols>>

\* return(cp_array)
Make2DReturn ==
    /\ pc = "loop"
    /\ i = Len(qpcr)
    /\ pc' = "done"
    /\ outcome' = "returned"
    /\ UNCHANGED <<pickVars, wellVars, normVars, qpcrVars, extVars, sample_vols>>

NextMake2D == Make2DRecord \/ Make2DReturn

SpecMake2D == InitMake2D /\ [][NextMake2D]_vars

\* the well lies outside the declared rows x cols grid
OutsideGrid(well) ==
    \/ Ord(Upper(well[1])) < 65
    \/ Ord(Upper(well[1])) >= 65 + array_shape[1]
    \/ well[2] < 1
    \/ well[2] > array_shape[2]

\* C15: the call ends in an error for every record whose well lies outside
\* the declared grid (row letter at or beyond the rows-th letter, column
\* number above cols, column number 0, a character before 'A'); the value
\* of such a record is never placed into a cell.
C15_OutsideGridFails ==
    /\ (pc = "done" /\ \E k \in 1 .. Len(qpcr) : OutsideGrid(qpcr[k].Pos))
          => outcome = "error"
    /\ \A k \in 1 .. i : ~OutsideGrid(qpcr[k].Pos)
-----------------------------------------------------------------------------
(* format_pooling_echo_pick_list on a full 16 x 24 source plate *)

FullPlateVolumes == {R(20000), R(50000), R(70000)}
FullDestShapes == {<<16, 24>>, <<24, 16>>}

\* a 16 x 24 plate with the same volume in every well
FullPlate(v) == [r \in 1 .. 16 |-> [c \in 1 .. 24 |-> v]]

InitPickFull ==
    /\ pc = "loop"
    /\ \E v \in FullPlateVolumes : vol_sample = FullPlate(v)
    /\ max_vol_per_well \in MaxVolChoices
    /\ dest_plate_shape \in FullDestShapes
    /\ i = 0
    /\ j = 0
    /\ running_tot = Zero
    /\ d = 1
    /\ contents = <<Header>>
    /\ wells = None /\ new_wells = None
    /\ dna_concs = None /\ ng = None /\ min_vol = None /\ max_vol = None
    /\ resolution = None
    /\ sample_concs = None /\ sample_fracs = None /\ min_conc = None
    /\ floor_conc = None /\ floor_vol = None /\ total_nmol = None
    /\ sample_fracs_pass = None /\ sample_concs_floor = None
    /\ sample_vols = None
    /\ outcome = None
    /\ dna_vols = None /\ water_vols = None /\ dest_wells = None
    /\ picklist = None
    /\ total_pmols = None /\ total_vol = None /\ pool_conc = None
    /\ qpcr = None /\ array_shape = None /\ cp_array = None

SpecPickFull == InitPickFull /\ [][NextPick]_vars

\* C16: with the default 16 x 24 destination plate every destination well
\* written is a row letter A..P followed by a column number in 1..24, for
\* every counter reached on a 16 x 24 source plate; no row has column 0.
C16_DestIsValidWell ==
    dest_plate_shape = <<16, 24>> =>
        \A k \in 1 .. processed :
            /\ \E r \in 1 .. 16 : contents[k + 1].dest[1] = Alphabet[r]
            /\ contents[k + 1].dest[2] \in 1 .. 24

\* C17: two source wells get the same destination well if and only if they
\* have the same destination counter, for every dest_plate_shape (stated for
\* the row written last against every earlier row).
C17_DestOneToOne ==
    \A k \in 1 .. processed :
        (contents[k + 1].dest = contents[processed + 1].dest)
            <=> (contents[k + 1].counter = contents[processed + 1].counter)
====
